---- MODULE Spec2Model ----
(***************************************************************************)
(* Model of the posts REST API: the API Gateway routes declared by         *)
(* RestApiStack, the create handler, and the DynamoDB table it writes.     *)
(* The get-one, get-all and delete handlers and the two dispatch entry     *)
(* points are not part of the sources at hand; they are modelled from the  *)
(* specification (sections 4.1 - 4.6).                                      *)
(***************************************************************************)
EXTENDS Integers, Sequences, FiniteSets, TLC

VARIABLES table, inv, removed, last

vars == <<table, inv, removed, last>>

\* Number of identifiers randomUUID() can hand out in one behaviour.
MaxUUIDs == 2

\* ------------------------------------------------------------------ JSON
\* A JSON text is a sequence of tokens, a token a record [t, v]:
\* t = "p" punctuation, "s" string, "n" number, "l" the literal null.
LB == [t |-> "p", v |-> "{"]
RB == [t |-> "p", v |-> "}"]
COLON == [t |-> "p", v |-> ":"]
COMMA == [t |-> "p", v |-> ","]
JNull == [t |-> "l", v |-> "null"]
JStr(s) == [t |-> "s", v |-> s]
JNum(s) == [t |-> "n", v |-> s]

IsScalar(tok) == tok.t \in {"s", "n", "l"}

\* The object with no properties.
EmptyObj == [k \in {} |-> JNull]

\* {...a, ...b}: b's properties override a's.
Merge(a, b) ==
  [k \in DOMAIN a \cup DOMAIN b |-> IF k \in DOMAIN b THEN b[k] ELSE a[k]]

\* The text is "{" k : v ( , k : v )* "}" or "{" "}".
IsObjectText(text) ==
  /\ Len(text) >= 2
  /\ text[1] = LB
  /\ text[Len(text)] = RB
  /\ \/ Len(text) = 2
     \/ /\ Len(text) % 4 = 1
        /\ \A i \in 1..((Len(text) - 1) \div 4) :
             /\ text[4 * i - 2].t = "s"
             /\ text[4 * i - 1] = COLON
             /\ IsScalar(text[4 * i])
             /\ (i < (Len(text) - 1) \div 4 => text[4 * i + 1] = COMMA)

\* The properties of an object text; a repeated name keeps its last value.
ObjectOf(text) ==
  LET n == (Len(text) - 1) \div 4
      lastAt(k) == CHOOSE i \in 1..n :
                     /\ text[4 * i - 2].v = k
                     /\ \A j \in (i + 1)..n : text[4 * j - 2].v # k
  IN [k \in {text[4 * i - 2].v : i \in 1..n} |-> text[4 * lastAt(k)]]

\* JSON.parse: kind "throw" is a SyntaxError.
JSONParse(text) ==
  IF Len(text) = 1 /\ text[1].t \in {"n", "l"}
  THEN [kind |-> IF text[1].t = "n" THEN "number" ELSE "null", obj |-> EmptyObj]
  ELSE IF IsObjectText(text)
       THEN [kind |-> "object", obj |-> ObjectOf(text)]
       ELSE [kind |-> "throw", obj |-> EmptyObj]

\* ...value in an object literal: the own properties of an object, nothing
\* for null or a number.
Spread(parsed) == IF parsed.kind = "object" THEN parsed.obj ELSE EmptyObj

\* JSON.stringify of an object whose properties were set in the order `order`.
Stringify(obj, order) ==
  LET n == Len(order)
  IN IF n = 0 THEN <<LB, RB>>
     ELSE [p \in 1..(4 * n + 1) |->
            IF p = 1 THEN LB
            ELSE IF p = 4 * n + 1 THEN RB
            ELSE IF p % 4 = 2 THEN JStr(order[(p + 2) \div 4])
            ELSE IF p % 4 = 3 THEN COLON
            ELSE IF p % 4 = 0 THEN obj[order[p \div 4]]
            ELSE COMMA]

\* ---------------------------------------------------------------- inputs
\* Identifiers randomUUID() may return.
UUIDs == {"u" \o ToString(i) : i \in 1..MaxUUIDs}

\* Identifiers a client may put in the {id} path parameter.
Ids == UUIDs \cup {"nonexistent"}

\* `POST#${uuid}`
Key(uuid) == "POST#" \o uuid

PostFields == {"title", "description", "author", "publicationDate"}
FieldOrder == <<"title", "description", "author", "publicationDate">>

\* Post payloads of the documented schema: four string fields.
ValidPayloads ==
  [title : {JStr("A"), JStr("B")}, description : {JStr("d")},
   author : {JStr("a")}, publicationDate : {JStr("2025-01-01")}]

\* A payload that also carries a property named pk.
WithPk(pk) ==
  [title |-> JStr("X"), description |-> JStr("d"), author |-> JStr("a"),
   publicationDate |-> JStr("2025-01-01"), pk |-> pk]

NoBody == [present |-> FALSE, text |-> <<>>]
EmptyBody == [present |-> TRUE, text |-> <<>>]
TextBody(text) == [present |-> TRUE, text |-> text]

ValidBodies == {TextBody(Stringify(P, FieldOrder)) : P \in ValidPayloads}

\* The keys a client names in the pk property of a payload.
PkTargets == {"u1", "nonexistent"}

PkBodies ==
  {TextBody(Stringify(WithPk(pk), FieldOrder \o <<"pk">>)) :
     pk \in {JStr(Key(id)) : id \in PkTargets} \cup {JNum("7")}}

\* A truncated object and the JSON text null.
OddBodies == {TextBody(<<LB, JStr("title")>>), TextBody(<<JNull>>)}

Bodies == {NoBody, EmptyBody} \cup ValidBodies \cup PkBodies \cup OddBodies

\* The payload a client serialised into a body of ValidBodies.
PayloadOf(body) ==
  CHOOSE P \in ValidPayloads : Stringify(P, FieldOrder) = body.text

\* ------------------------------------------------------------ API Gateway
Routes ==
  {<<"GET", "/posts">>, <<"POST", "/posts">>,
   <<"GET", "/posts/{id}">>, <<"DELETE", "/posts/{id}">>}

\* DELETE /posts/{id} added without apiKeyRequired.
ApiKeyRequiredButDelete(method, resource) ==
  ~(method = "DELETE" /\ resource = "/posts/{id}")

\* apiKeyRequired of each method added to the two resources.
ApiKeyRequired(method, resource) ==
  CASE method = "GET" /\ resource = "/posts" -> TRUE
    [] method = "POST" /\ resource = "/posts" -> TRUE
    [] method = "GET" /\ resource = "/posts/{id}" -> TRUE
    [] method = "DELETE" /\ resource = "/posts/{id}" -> TRUE

\* The keys of the usage plan attached to the deployment stage.
UsagePlanKeys == {"apiKey"}

\* What a request may carry in x-api-key; "none" is no header.
ApiKeys == {"apiKey", "wrongKey", "none"}

Authorized(method, resource, key) ==
  ApiKeyRequired(method, resource) => key \in UsagePlanKeys

\* ----------------------------------------------------------------- store
\* PutItem: the key attribute must have the type of the table's key schema.
PutAccepted(item) == item["pk"].t = "s"

PutItem(t, item) ==
  [k \in DOMAIN t \cup {item["pk"].v} |-> IF k = item["pk"].v THEN item ELSE t[k]]

\* A delete that removes nothing.
DeleteItemNoop(t, key) == t

DeleteItem(t, key) == [k \in DOMAIN t \ {key} |-> t[k]]

\* --------------------------------------------------------------- handlers
\* if (body === null): an empty string passes.
MissingBodyNullOnly(body) == ~body.present

\* if (!body)
MissingBody(body) == ~body.present \/ body.text = <<>>

\* Item: { pk: uuid, ...bodyParsed }, the prefix forgotten.
CreateItemNoPrefix(uuid, bodyParsed) ==
  Merge([pk |-> JStr(uuid)], Spread(bodyParsed))

\* Item: { pk: 'POST#', ...bodyParsed }, the identifier forgotten.
CreateItemFixedKey(uuid, bodyParsed) ==
  Merge([pk |-> JStr("POST#")], Spread(bodyParsed))

\* Item: { pk: `POST#${uuid}`, ...bodyParsed }
CreateItem(uuid, bodyParsed) ==
  Merge([pk |-> JStr(Key(uuid))], Spread(bodyParsed))

\* A handler that swallows the rejection of dynamodb.send.
CreateOutcomeSwallow(sendOk) == "200"

\* What the handler does once dynamodb.send settles: return the 200
\* response, or let the rejection propagate.
CreateOutcome(sendOk) == IF sendOk THEN "200" ELSE "throw"

Response(status, message, items) ==
  [statusCode |-> status, message |-> message, items |-> items]

GetOne(t, id) ==
  IF Key(id) \in DOMAIN t
  THEN Response(200, "", {t[Key(id)]})
  ELSE Response(404, "Post not found", {})

GetAll(t) == Response(200, "", {t[k] : k \in DOMAIN t})

\* A delete that looks the record up first and answers 404 without it.
DeleteChecked(t, id) ==
  IF Key(id) \in DOMAIN t
  THEN [table |-> DeleteItem(t, Key(id)), resp |-> Response(200, "Post deleted", {})]
  ELSE [table |-> t, resp |-> Response(404, "Post not found", {})]

\* The table and the response after an unconditional delete of the key.
Delete(t, id) ==
  [table |-> DeleteItem(t, Key(id)), resp |-> Response(200, "Post deleted", {})]

\* collection resource: GET lists, POST creates.
PostsDispatch(method) == IF method = "GET" THEN "getAll" ELSE "create"

\* item resource: GET fetches, DELETE deletes.
PostDispatch(method) == IF method = "GET" THEN "getOne" ELSE "delete"

\* The event recorded for one step of the system.
Event(src, route, key, handler, id, body, resp, after) ==
  [src |-> src, route |-> route, key |-> key, handler |-> handler, id |-> id, body |-> body,
   status |-> resp.statusCode, message |-> resp.message, items |-> resp.items,
   after |-> after]

NoResponse == Response(0, "", {})
Unhandled == Response(500, "Internal server error", {})

\* randomUUID(): a value no earlier call returned.
RandomUUID == "u" \o ToString(Cardinality(DOMAIN inv) + 1)

\* The create invocations whose send has not settled yet.
InFlight == {u \in DOMAIN inv : inv[u].pc = "sent"}

\* One invocation of create: its argument (kept while it runs and for the
\* record it wrote), where it stands, and how often it called and completed
\* dynamodb.send.
Invocation(body, pc, sends, writes) ==
  [body |-> body, pc |-> pc, sends |-> sends, writes |-> writes]

Init ==
  /\ table = [k \in {} |-> EmptyObj]
  /\ inv = [u \in {} |-> Invocation(NoBody, "400", 0, 0)]
  /\ removed = {}
  /\ last = Event("init", <<"-", "-">>, "none", "none", "-", NoBody, NoResponse, "-")

\* A request the gateway rejects: no integration is invoked.
Forbidden(method, resource, key) ==
  /\ ~Authorized(method, resource, key)
  /\ last' = Event("gateway", <<method, resource>>, key, "none", "-", NoBody,
                   Response(403, "Forbidden", {}), "-")
  /\ UNCHANGED <<table, inv, removed>>

\* create, up to the await of dynamodb.send.
CreateCall(key, body) ==
  /\ Authorized("POST", "/posts", key)
  /\ PostsDispatch("POST") = "create"
  /\ Cardinality(DOMAIN inv) < MaxUUIDs
  /\ LET uuid == RandomUUID
       IN
       LET parsed == JSONParse(body.text)
           pc == IF MissingBody(body) THEN "400"
                 ELSE IF parsed.kind = "throw" THEN "throw"
                 ELSE "sent"
           resp == IF pc = "400" THEN Response(400, "Missing body", {})
                   ELSE IF pc = "throw" THEN Unhandled
                   ELSE NoResponse
       IN /\ inv' = [u \in DOMAIN inv \cup {uuid} |->
                       IF u = uuid
                       THEN Invocation(IF pc = "sent" THEN body ELSE NoBody, pc,
                                       IF pc = "sent" THEN 1 ELSE 0, 0)
                       ELSE inv[u]]
          /\ last' = Event("gateway", <<"POST", "/posts">>, key, "create", uuid, body, resp, "-")
  /\ UNCHANGED <<table, removed>>

\* The store applies the put and create returns.
PutDone(uuid) ==
  /\ uuid \in InFlight
  /\ LET item == CreateItem(uuid, JSONParse(inv[uuid].body.text))
         pc == CreateOutcome(TRUE)
     IN /\ PutAccepted(item)
        /\ table' = PutItem(table, item)
        /\ inv' = [inv EXCEPT ![uuid].pc = pc, ![uuid].writes = @ + 1]
        /\ last' = Event("store", <<"POST", "/posts">>, "apiKey", "create", uuid, NoBody,
                         IF pc = "200" THEN Response(200, "Post created", {})
                         ELSE Unhandled, "-")
  /\ UNCHANGED removed

\* The store rejects the put, or the call fails; the rejection propagates.
PutFail(uuid) ==
  /\ uuid \in InFlight
  /\ LET pc == CreateOutcome(FALSE)
     IN /\ inv' = [inv EXCEPT ![uuid].pc = pc,
                                ![uuid].body = IF pc = "200" THEN @ ELSE NoBody]
        /\ last' = Event("store", <<"POST", "/posts">>, "apiKey", "create", uuid, NoBody,
                         IF pc = "200" THEN Response(200, "Post created", {})
                         ELSE Unhandled, "-")
  /\ UNCHANGED <<table, removed>>

GetAllReq(key) ==
  /\ Authorized("GET", "/posts", key)
  /\ PostsDispatch("GET") = "getAll"
  /\ last' = Event("gateway", <<"GET", "/posts">>, key, "getAll", "-", NoBody,
                   GetAll(table), "-")
  /\ UNCHANGED <<table, inv, removed>>

GetOneReq(key, id) ==
  /\ Authorized("GET", "/posts/{id}", key)
  /\ PostDispatch("GET") = "getOne"
  /\ last' = Event("gateway", <<"GET", "/posts/{id}">>, key, "getOne", id, NoBody,
                   GetOne(table, id),
                   IF last.id = id /\ last.status = 200
                      /\ last.handler \in {"create", "delete"}
                   THEN last.handler ELSE "-")
  /\ UNCHANGED <<table, inv, removed>>

DeleteReq(key, id) ==
  /\ Authorized("DELETE", "/posts/{id}", key)
  /\ PostDispatch("DELETE") = "delete"
  /\ table' = Delete(table, id).table
  /\ last' = Event("gateway", <<"DELETE", "/posts/{id}">>, key, "delete", id, NoBody,
                   Delete(table, id).resp, "-")
  /\ removed' = IF id \in DOMAIN inv /\ inv[id].writes > 0
                THEN removed \cup {id} ELSE removed
  /\ UNCHANGED inv

Next ==
  \/ \E r \in Routes, key \in ApiKeys : Forbidden(r[1], r[2], key)
  \/ \E key \in ApiKeys, body \in Bodies : CreateCall(key, body)
  \/ \E uuid \in UUIDs : PutDone(uuid)
  \/ \E uuid \in UUIDs : PutFail(uuid)
  \/ \E key \in ApiKeys : GetAllReq(key)
  \/ \E key \in ApiKeys, id \in Ids : GetOneReq(key, id)
  \/ \E key \in ApiKeys, id \in Ids : DeleteReq(key, id)

Spec == Init /\ [][Next]_vars

\* ---------------------------------------------------------------- claims
\* The invocations of create whose record reached the table.
Landed == {u \in DOMAIN inv : inv[u].writes > 0}

\* The key the record of a landed invocation was written under.
WrittenKey(u) == CreateItem(u, JSONParse(inv[u].body.text))["pk"].v

\* The record a post payload P is expected to be stored as under id.
ExpectedRecord(P, id) ==
  [k \in PostFields \cup {"pk"} |-> IF k = "pk" THEN JStr(Key(id)) ELSE P[k]]

\* Every record written so far came from a payload of the post schema.
OnlyPosts == \A u \in Landed : inv[u].body \in ValidBodies

\* C1: once create has answered 200 for a valid post payload P, getOne on
\* the identifier that create generated answers 200 with exactly P plus the
\* generated key, whatever else the table holds.
C1_CreateThenGetOne ==
  /\ (last.src = "store" /\ last.status = 200 /\ inv[last.id].body \in ValidBodies)
       => GetOne(table, last.id) =
            Response(200, "", {ExpectedRecord(PayloadOf(inv[last.id].body), last.id)})
  /\ (last.handler = "getOne" /\ last.after = "create"
        /\ inv[last.id].body \in ValidBodies)
       => /\ last.status = 200
          /\ last.items = {ExpectedRecord(PayloadOf(inv[last.id].body), last.id)}

\* getOne has just answered for a post created right before it, next to
\* another record.
C1_Witness ==
  /\ last.handler = "getOne"
  /\ last.after = "create"
  /\ inv[last.id].body \in ValidBodies
  /\ last.status = 200
  /\ Cardinality(DOMAIN table) = 2

\* C2: create with a null or empty body answers 400 "Missing body", calls the
\* store not at all and leaves the table as it was.
C2_MissingBody ==
  [][(last'.handler = "create" /\ last'.src = "gateway"
        /\ last'.body \in {NoBody, EmptyBody})
       => /\ last'.status = 400
          /\ last'.message = "Missing body"
          /\ table' = table
          /\ inv'[last'.id].pc = "400"
          /\ inv'[last'.id].sends = 0
          /\ inv'[last'.id].writes = 0]_vars

\* create has just answered 400 to an empty body while the table holds a record.
C2_Witness ==
  /\ last.handler = "create"
  /\ last.body = EmptyBody
  /\ last.status = 400
  /\ DOMAIN table # {}

\* C3: a record of the table is changed or removed only by a delete of its
\* own identifier; no create changes or replaces an existing record.
C3_MutableOnlyByDelete ==
  [][\A k \in DOMAIN table :
       \/ (k \in DOMAIN table' /\ table'[k] = table[k])
       \/ (last'.handler = "delete" /\ Key(last'.id) = k)]_vars

\* C4: every create that wrote a record wrote it under a key no other
\* create, earlier or concurrent, wrote under: no two creates write to the
\* same key.
C4_UniqueKeys ==
  \A u1 \in Landed, u2 \in Landed : u1 # u2 => WrittenKey(u1) # WrittenKey(u2)

\* C5: after delete(id), getOne(id) answers 404 "Post not found", whether or
\* not a record existed; a getOne(id) issued right after the delete gets 404.
C5_DeleteThenGetOne ==
  /\ last.handler = "delete"
       => GetOne(table, last.id) = Response(404, "Post not found", {})
  /\ (last.handler = "getOne" /\ last.after = "delete")
       => /\ last.status = 404
          /\ last.message = "Post not found"
          /\ last.items = {}

\* getOne has just answered 404 for a post that was written and then deleted.
C5_Witness ==
  /\ last.handler = "getOne"
  /\ last.after = "delete"
  /\ last.id \in removed
  /\ last.status = 404

\* C6: as long as only post payloads were created, getAll answers 200 with
\* exactly the records of the posts created and not deleted since: N of them
\* after N creates, N - 1 after one of them is deleted.
C6_GetAll ==
  OnlyPosts =>
    LET live == Landed \ removed
        expected == {ExpectedRecord(PayloadOf(inv[u].body), u) : u \in live}
    IN /\ GetAll(table) = Response(200, "", expected)
       /\ Cardinality(GetAll(table).items)
            = Cardinality(Landed) - Cardinality(removed)
       /\ last.handler = "getAll" =>
            (last.status = 200 /\ last.items = expected)

\* getAll has just answered with one record after two posts were created and
\* one of them deleted.
C6_Witness ==
  /\ OnlyPosts
  /\ last.handler = "getAll"
  /\ Cardinality(Landed) = 2
  /\ Cardinality(removed) = 1
  /\ Cardinality(last.items) = 1

\* C7: getOne answers 404 "Post not found" for every identifier no create
\* has generated.
C7_NeverCreatedNotFound ==
  \A id \in Ids \ DOMAIN inv :
    GetOne(table, id) = Response(404, "Post not found", {})

\* C8: delete(id) answers 200 "Post deleted" whether or not the record
\* existed, leaves the table without id and every other record as it was,
\* and a second delete(id) changes nothing more.
C8_DeleteIdempotent ==
  [][last'.handler = "delete"
       => /\ last'.status = 200
          /\ last'.message = "Post deleted"
          /\ table' = [k \in DOMAIN table \ {Key(last'.id)} |-> table[k]]
          /\ Delete(table', last'.id).table = table'
          /\ Delete(table', last'.id).resp = Response(200, "Post deleted", {})]_vars

\* delete has just answered 200 for an identifier that never had a record,
\* while the table holds other records.
C8_Witness ==
  /\ last.handler = "delete"
  /\ last.id = "nonexistent"
  /\ last.status = 200
  /\ DOMAIN table # {}

\* C9: a request to any of the four routes without a key of the usage plan
\* is answered 403 Forbidden by the gateway; no handler runs and neither the
\* table nor any invocation changes.
C9_ApiKeyRequired ==
  [][(last'.src = "gateway" /\ last'.key \notin UsagePlanKeys)
       => /\ last'.route \in Routes
          /\ last'.status = 403
          /\ last'.message = "Forbidden"
          /\ last'.handler = "none"
          /\ UNCHANGED <<table, inv, removed>>]_vars

\* A DELETE without the header has just been answered 403 while the table
\* holds a record.
C9_Witness ==
  /\ last.status = 403
  /\ last.key = "none"
  /\ last.route = <<"DELETE", "/posts/{id}">>
  /\ DOMAIN table # {}

\* C10: a create invocation answers 200 "Post created" exactly when its one
\* call of the store wrote its record; it calls the store at most once, and
\* when it answers anything else no record was written and the table is as
\* it was.
C10_SuccessIffOneWrite ==
  [][last'.handler = "create"
       => LET i == inv'[last'.id]
          IN /\ last'.status = 200 <=> (i.writes = 1 /\ i.pc = "200")
             /\ last'.status = 200 => last'.message = "Post created"
             /\ i.sends <= 1
             /\ i.writes <= i.sends
             /\ last'.status # 200 => (i.writes = 0 /\ table' = table)
             /\ last'.status \in {400, 500} => i.pc \in {"400", "throw"}]_vars

\* The store has just failed a write: the invocation ended without a record
\* and without a retry.
C10_Witness ==
  /\ last.handler = "create"
  /\ last.src = "store"
  /\ last.status = 500
  /\ inv[last.id].sends = 1
  /\ inv[last.id].writes = 0
  /\ inv[last.id].pc = "throw"

====
